---------------------------- MODULE Spec2Model ----------------------------
(***************************************************************************)
(* SupermarQ benchmarks (src/supermarq/benchmarks): construction,          *)
(* circuit() and score() of GHZ, PhaseCode, MerminBell, QAOAVanillaProxy,  *)
(* QAOAFermionicSwapProxy and VQEProxy, and the swap network built by      *)
(* QAOAFermionicSwapProxy._gen_swap_network.                               *)
(*                                                                         *)
(* Numbers.  Python floats are modelled by exact rationals <<num, den>>    *)
(* with den > 0, kept in lowest terms.  A bitstring is a sequence of 0/1,   *)
(* index 1 = leftmost character.  A Counter / dict is the sequence of its  *)
(* items <<key, value>> in insertion order.  A probability distribution is *)
(* a record [items |-> <<key, numerator>>..., den |-> common denominator]. *)
(*                                                                         *)
(* The circuit substrate (cirq) is external.  For VQEProxy the model       *)
(* computes the output distribution of the ansatz exactly, on the angles   *)
(* that prepare product states.  For the QAOA benchmarks                   *)
(* final_state_vector() is a deterministic function of the parameters that *)
(* the model does not compute from gates: a parameter vector stands for    *)
(* the angles at which the circuit outputs a given distribution, see       *)
(* final_state_vector below.                                               *)
(***************************************************************************)
EXTENDS Integers, Sequences, FiniteSets, TLC

VARIABLES
    pc,             \* "start" | "gen_angles" | "ready" | "failed" | "swap_network" | "swap_done"
    args,           \* arguments of the constructor call: <<qubits, rounds or layers, phase_state>>
    kind,           \* the benchmark class being constructed / constructed
    num_qubits,     \* self.num_qubits (GHZ: self.n, PhaseCode: self.num_data_qubits)
    num_rounds,     \* PhaseCode: self.num_rounds
    phase_state,    \* PhaseCode: self.phase_state
    num_layers,     \* VQEProxy: self.num_layers
    Hamiltonian,    \* self.Hamiltonian
    params,         \* self.params (VQEProxy: self._params)
    best_params,    \* _gen_angles: local best_params
    best_cost,      \* _gen_angles: local best_cost
    restart,        \* _gen_angles: iterations of `for _ in range(5)` done
    opt_runs,       \* number of calls of _get_opt_angles made by the constructor
    any_negative,   \* history: some call of _get_opt_angles returned a cost < 0
    earliest_min,   \* history: the earliest run with the lowest cost so far, of those below 0
    call,           \* last method called on the instance: "none" | "circuit" | "score"
    counts,         \* argument of the last score() call
    H_ideal,        \* score: local H_ideal (VQEProxy: ideal_H) of the last call
    H_experimental, \* score: local H_experimental (VQEProxy: experimental_H)
    result,         \* what the last call returned or raised
    layer,          \* _gen_swap_network: `for layer in range(self.num_qubits)`
    pair,           \* _gen_swap_network: pairs of the layer's cover already done
    virtual_map,    \* _gen_swap_network: local virtual_map
    weight,         \* _gen_swap_network: local weight
    cnots,          \* _gen_swap_network: CNOT operations appended so far
    interactions    \* history: the (v_i, v_j) of the interact+swap steps done, in order

inst == <<args, kind, num_qubits, num_rounds, phase_state, num_layers, Hamiltonian, params>>
loop == <<best_params, best_cost, restart, opt_runs, any_negative, earliest_min>>
last == <<call, counts, H_ideal, H_experimental, result>>
swap == <<layer, pair, virtual_map, weight, cnots, interactions>>

vars == <<pc, inst, loop, last, swap>>

----------------------------------------------------------------------------
(* Bounds of the model *)

\* largest number of shots in a measurement histogram passed to score()
MaxShots == 2

\* repetitions of the sampled run in PhaseCode._get_dist that the model draws
\* (the code asks for 5000)
SampleShots == 1

\* largest qubit count the swap network is built for
MaxSwapQubits == 6

\* largest number of qubits for which the swap network is built for every choice
\* of the +1/-1 weights (above it: all weights +1 or all weights -1)
MaxMixedQubits == 4

\* qubit counts the benchmarks are constructed with
GHZQubitCounts    == {1, 2, 3}
QAOAQubitCounts   == {1, 2, 3}
VQEQubitCounts    == {1, 2, 6}
VQELayerCounts    == {1, 2}
MerminQubitCounts == {2, 3, 4, 5}
PhaseQubitCounts  == {1, 2}
PhaseRounds       == {0, 1}

None == "None"

----------------------------------------------------------------------------
(* Arithmetic *)

Abs(x) == IF x < 0 THEN -x ELSE x

RECURSIVE GCD(_, _)
GCD(a, b) == IF b = 0 THEN a ELSE GCD(b, a % b)

\* the rational n/d (d # 0) in lowest terms with a positive denominator
Rat(n, d) ==
    LET g == GCD(Abs(n), Abs(d))
        s == IF d < 0 THEN -1 ELSE 1
    IN  <<(s * n) \div g, (s * d) \div g>>

RatLess(x, y) == x[1] * y[2] < y[1] * x[2]
RatLeq(x, y)  == x[1] * y[2] <= y[1] * x[2]
RatAdd(x, y)  == Rat(x[1] * y[2] + y[1] * x[2], x[2] * y[2])
RatSub(x, y)  == Rat(x[1] * y[2] - y[1] * x[2], x[2] * y[2])
RatAbs(x)     == <<Abs(x[1]), x[2]>>
RatNeg(x)     == <<-x[1], x[2]>>
Zero == <<0, 1>>
One  == <<1, 1>>
\* a local that holds no number (the call did not get that far)
NoValue == <<0, 0>>

RECURSIVE Pow2(_)
Pow2(n) == IF n = 0 THEN 1 ELSE 2 * Pow2(n - 1)

RECURSIVE SumTo(_, _)
\* s[1] + ... + s[k]
SumTo(s, k) == IF k = 0 THEN 0 ELSE s[k] + SumTo(s, k - 1)

\* sum(s) of a sequence of numbers
Sum(s) == SumTo(s, Len(s))

----------------------------------------------------------------------------
(* What a call returns or raises *)

\* a float num/den, plus sum(c * sqrt(d))/den over the items <<d, c>> of surds
NoResult     == [tag |-> "none",  num |-> 0,    den |-> 1,    what |-> "", surds |-> <<>>]
Float(x)     == [tag |-> "float", num |-> x[1], den |-> x[2], what |-> "", surds |-> <<>>]
\* numpy division by a zero float: no exception, the value is -inf or nan
NonFinite(w) == [tag |-> "float", num |-> 0,    den |-> 0,    what |-> w,  surds |-> <<>>]
Raise(e)     == [tag |-> "raise", num |-> 0,    den |-> 1,    what |-> e,  surds |-> <<>>]
\* a circuit (or list of `len` circuits) on `qubits` qubits
Circuit(qubits, len) ==
    [tag |-> "circuit", num |-> qubits, den |-> len, what |-> "", surds |-> <<>>]

IsFinite(r) == r.tag = "float" /\ r.den > 0
Value(r)    == <<r.num, r.den>>

----------------------------------------------------------------------------
(* Bitstrings and Counters *)

\* k[::-1]
Reverse(k) == LET n == Len(k) IN [i \in 1..n |-> k[n + 1 - i]]

\* f"{i:>0{n}b}" for 0 <= i < 2^n, n >= 1: big-endian binary, zero padded to n
Format(i, n) == [q \in 1..n |-> (i \div Pow2(n - q)) % 2]

Key(item) == item[1]
Val(item) == item[2]

\* sum(counts.values())
Total(cnt) == Sum([i \in 1..Len(cnt) |-> Val(cnt[i])])

\* counts.get(key, 0)
Get(cnt, key) ==
    LET hit == {i \in 1..Len(cnt) : Key(cnt[i]) = key}
    IN  IF hit = {} THEN 0 ELSE Val(cnt[CHOOSE i \in hit : TRUE])

----------------------------------------------------------------------------
(* Measurement data *)

\* the outcomes the modelled measurements report: 0...0, 0...01, 1...1
Outcomes(n) ==
    IF n = 1 THEN <<Format(0, n), Format(1, n)>>
    ELSE <<Format(0, n), Format(1, n), Format(Pow2(n) - 1, n)>>

\* the Counter holding c[i] > 0 shots of outcome keys[i]
Histogram(keys, c) ==
    LET all == [i \in 1..Len(c) |-> <<keys[i], c[i]>>]
    IN  SelectSeq(all, LAMBDA it : Val(it) > 0)

\* Counters over `keys` of at most `shots` shots in total (the empty Counter among them)
Histograms(keys, shots) ==
    {Histogram(keys, c) : c \in {c \in [1..Len(keys) -> 0..shots] : Sum(c) <= shots}}

\* a Counter whose only key has count 0
ZeroCounts(n) == {<<<<Format(0, n), 0>>>>}

\* register widths measured by the modelled benchmarks
Widths == 1..6

\* the measurement results a caller may pass to score() of an n-qubit circuit
CountsTable == [n \in Widths |-> Histograms(Outcomes(n), MaxShots) \cup ZeroCounts(n)]
CountsSet(n) == CountsTable[n]

----------------------------------------------------------------------------
(* QAOAVanillaProxy and QAOAFermionicSwapProxy *)

QAOAKinds == {"QAOAVanillaProxy", "QAOAFermionicSwapProxy"}

\* parameter vectors <<gamma, beta>> the optimizer may return for n qubits.
\* The angles are abstract: <<a, b>> stands for the angles at which the
\* circuit outputs the basis states of index a and b with equal probability
\* (a = b: the one basis state with certainty).  The modelled vectors pair
\* every basis state with itself and with the next one.
ParamSet(n) == {<<a, b>> : a \in 0..(Pow2(n) - 1), b \in 0..(Pow2(n) - 1)}
                 \cap {<<a, b>> \in Int \X Int : b = a \/ b = (a + 1) % Pow2(n)}

\* circuit.final_state_vector(), as squared amplitudes by basis index 0..2^n-1
\* (entry i + 1 is index i), over their common denominator
final_state_vector(n, prm) ==
    [i \in 1..Pow2(n) |-> (IF prm[1] = i - 1 THEN 1 ELSE 0) + (IF prm[2] = i - 1 THEN 1 ELSE 0)]

\* for i in range(n): for j in range(i + 1, n): the pairs in loop order
RECURSIVE PairsFrom(_, _, _)
PairsFrom(i, j, n) ==
    IF i >= n THEN <<>>
    ELSE IF j >= n THEN PairsFrom(i + 1, i + 2, n)
    ELSE <<<<i, j>>>> \o PairsFrom(i, j + 1, n)

\* int(num_qubits * (num_qubits - 1) / 2)
NumWeights(n) == (n * (n - 1)) \div 2

\* 2 * np.random.randint(low=0, high=2, size=m) - 1
RandomWeights(m) == {[k \in 1..m |-> 2 * r[k] - 1] : r \in [1..m -> {0, 1}]}

\* variant of Shuffles in which a swap copies an item instead of exchanging
\* two: the first item ends up in the last place as well
shuffles_duplicating(m) == {[k \in 1..m |-> IF k = m THEN 1 ELSE k]}

\* orders np.random.shuffle may leave a list of m items in: the modelled
\* draws are the order as built and its reverse
Shuffles(m) == {[k \in 1..m |-> k], [k \in 1..m |-> m + 1 - k]}

\* _gen_sk_Hamiltonian with the drawn weights and the drawn shuffle:
\* the k-th appended term takes random_weights.pop(), the last weight left
gen_sk_Hamiltonian(n, random_weights, order) ==
    LET m  == Len(random_weights)
        pr == PairsFrom(0, 1, n)
        H  == [k \in 1..Len(pr) |-> <<pr[k][1], pr[k][2], random_weights[m + 1 - k]>>]
    IN  [k \in 1..Len(H) |-> H[order[k]]]

SKHamiltonians(n) ==
    {gen_sk_Hamiltonian(n, w, o) : w \in RandomWeights(NumWeights(n)),
                                   o \in Shuffles(NumWeights(n))}

\* _get_energy_for_bitstring (bitstring[i] is b[i + 1])
get_energy_for_bitstring(H, b) ==
    Sum([k \in 1..Len(H) |->
            IF b[H[k][1] + 1] = b[H[k][2] + 1] THEN -H[k][3] ELSE H[k][3]])

\* _get_expected_H_from_probs: H_expectation starts at 0.0
get_expected_H_from_probs(H, probs) ==
    LET items == probs.items
        m     == Len(items)
    IN  IF m = 0 THEN Zero
        ELSE Rat(Sum([i \in 1..m |->
                        LET item == items[i]
                        IN  Val(item) * get_energy_for_bitstring(H, Key(item))]),
                 probs.den)

\* _get_ideal_counts of QAOAVanillaProxy: bitstring of index i -> |amplitude|^2
get_ideal_counts_vanilla(n, sv) ==
    [items |-> [i \in 1..Len(sv) |-> <<Format(i - 1, n), sv[i]>>],
     den   |-> Sum(sv)]

\* _get_ideal_counts of QAOAFermionicSwapProxy: the key is bitstring[::-1]
get_ideal_counts_swap(n, sv) ==
    [items |-> [i \in 1..Len(sv) |-> <<Reverse(Format(i - 1, n)), sv[i]>>],
     den   |-> Sum(sv)]

get_ideal_counts(k, n, sv) ==
    IF k = "QAOAFermionicSwapProxy" THEN get_ideal_counts_swap(n, sv)
    ELSE get_ideal_counts_vanilla(n, sv)

\* H_expect of f(params) and H_ideal of score(): the energy of the exact
\* output distribution of the circuit at prm
qaoa_H_ideal(k, H, n, prm) ==
    get_expected_H_from_probs(H, get_ideal_counts(k, n, final_state_vector(n, prm)))

\* variant of cost_f that forgets the sign: return H_expect
cost_f_unnegated(k, H, n, prm) == qaoa_H_ideal(k, H, n, prm)

\* f(params) of _get_opt_angles: return -H_expect
cost_f(k, H, n, prm) == RatNeg(qaoa_H_ideal(k, H, n, prm))

\* for _ in range(5) in _gen_angles
NumRestarts == 5

\* history of the runs of _get_opt_angles while none had a cost below 0
NoRun == [params |-> <<>>, cost |-> NoValue, tied_later |-> FALSE]

\* history after one more run returned (prm, cost): of the runs with a cost
\* below 0, the earliest one with the lowest cost, and whether a later run
\* with other parameters had the same cost
RecordRun(h, prm, cost) ==
    IF ~RatLess(cost, Zero) THEN h
    ELSE IF h.cost = NoValue \/ RatLess(cost, h.cost)
    THEN [params |-> prm, cost |-> cost, tied_later |-> FALSE]
    ELSE IF cost = h.cost /\ prm # h.params THEN [h EXCEPT !.tied_later = TRUE]
    ELSE h

\* variant of loop_done that leaves the loop one iteration early
loop_done_early(r) == r + 1 >= NumRestarts

\* `for _ in range(5)` has run r times and is exhausted
loop_done(r) == r >= NumRestarts

\* variant of improves that also takes an equal cost: cost <= best_cost
improves_or_equal(cost, best) == RatLeq(cost, best)

\* if cost < best_cost
improves(cost, best) == RatLess(cost, best)

\* {k: v / total_shots for k, v in counts.items()} of QAOAVanillaProxy.score
experimental_counts_vanilla(cnt) == [items |-> cnt, den |-> Total(cnt)]

\* variant of experimental_counts_swap without the key reversal
experimental_counts_unreversed(cnt) == [items |-> cnt, den |-> Total(cnt)]

\* {k[::-1]: v / total_shots for k, v in counts.items()} of QAOAFermionicSwapProxy.score
experimental_counts_swap(cnt) ==
    [items |-> [i \in 1..Len(cnt) |-> <<Reverse(Key(cnt[i])), Val(cnt[i])>>],
     den   |-> Total(cnt)]

experimental_counts(k, cnt) ==
    IF k = "QAOAFermionicSwapProxy" THEN experimental_counts_swap(cnt)
    ELSE experimental_counts_vanilla(cnt)

\* variant of energy_score_qaoa without abs() on the deviation
energy_score_qaoa_signed_deviation(ideal, experimental) ==
    LET dev == RatSub(ideal, experimental)
    IN  IF ideal[1] = 0
        THEN NonFinite(IF dev[1] = 0 THEN "nan" ELSE "-inf")
        ELSE Float(RatSub(One, Rat(dev[1] * ideal[2], dev[2] * 2 * ideal[1])))

\* 1 - abs(H_ideal - H_experimental) / (2 * H_ideal), a numpy division
energy_score_qaoa(ideal, experimental) ==
    LET dev == RatAbs(RatSub(ideal, experimental))
    IN  IF ideal[1] = 0
        THEN NonFinite(IF dev[1] = 0 THEN "nan" ELSE "-inf")
        ELSE Float(RatSub(One, Rat(dev[1] * ideal[2], dev[2] * 2 * ideal[1])))

\* the locals H_ideal and H_experimental of a score() call and what it returns
ScoreOut(ideal, experimental, r) ==
    [H_ideal |-> ideal, H_experimental |-> experimental, result |-> r]

\* score(counts) of the two QAOA benchmarks; self.circuit() runs first, and
\* `ideal` is the energy of its exact output distribution
qaoa_score(k, H, prm, ideal, cnt) ==
    IF Len(prm) # 2 THEN ScoreOut(NoValue, NoValue, Raise("ValueError"))
    ELSE IF Len(cnt) > 0 /\ Total(cnt) = 0
    THEN ScoreOut(NoValue, NoValue, Raise("ZeroDivisionError"))
    ELSE LET experimental == get_expected_H_from_probs(H, experimental_counts(k, cnt))
         IN  ScoreOut(ideal, experimental, energy_score_qaoa(ideal, experimental))

\* variant of qaoa_circuit that builds a circuit whatever self.params holds
qaoa_circuit_any_params(n, prm) == Circuit(n, 1)

\* circuit() of the two QAOA benchmarks: gamma, beta = self.params
qaoa_circuit(n, prm) ==
    IF Len(prm) # 2 THEN Raise("ValueError") ELSE Circuit(n, 1)

\* the exact big-endian output distribution of the instance's circuit, as the
\* tests build it (probabilities as weights over their common denominator)
ideal_distribution(n, sv) == [i \in 1..Len(sv) |-> <<Format(i - 1, n), sv[i]>>]

(* __init__ up to the call of _gen_angles *)
QAOAInit(k, n) ==
    /\ pc = "start"
    /\ pc' = "gen_angles"
    /\ args' = <<n, 0, <<>>>>
    /\ kind' = k
    /\ num_qubits' = n
    /\ Hamiltonian' \in SKHamiltonians(n)
    /\ best_params' = <<>>
    /\ best_cost' = Zero
    /\ restart' = 0
    /\ UNCHANGED <<num_rounds, phase_state, num_layers, params, opt_runs, any_negative,
                   earliest_min, last, swap>>

(* one iteration of the loop of _gen_angles: _get_opt_angles and the comparison *)
QAOARestart ==
    /\ pc = "gen_angles"
    /\ kind \in QAOAKinds
    /\ ~loop_done(restart)
    /\ \E prm \in ParamSet(num_qubits) :
          \E cost \in {cost_f(kind, Hamiltonian, num_qubits, prm)} :
              /\ IF improves(cost, best_cost)
                 THEN best_params' = prm /\ best_cost' = cost
                 ELSE UNCHANGED <<best_params, best_cost>>
              /\ any_negative' = (any_negative \/ RatLess(cost, Zero))
              /\ earliest_min' = RecordRun(earliest_min, prm, cost)
    /\ restart' = restart + 1
    /\ opt_runs' = opt_runs + 1
    /\ UNCHANGED <<pc, inst, last, swap>>

(* return best_params; self.params = ... *)
QAOAReturn ==
    /\ pc = "gen_angles"
    /\ kind \in QAOAKinds
    /\ loop_done(restart)
    /\ params' = best_params
    /\ pc' = "ready"
    /\ UNCHANGED <<args, kind, num_qubits, num_rounds, phase_state, num_layers, Hamiltonian,
                   loop, last, swap>>

QAOACircuit ==
    /\ pc = "ready"
    /\ kind \in QAOAKinds
    /\ call' = "circuit"
    /\ counts' = <<>>
    /\ H_ideal' = NoValue
    /\ H_experimental' = NoValue
    /\ result' = qaoa_circuit(num_qubits, params)
    /\ UNCHANGED <<pc, inst, loop, swap>>

QAOAScore ==
    /\ pc = "ready"
    /\ kind \in QAOAKinds
    /\ \E ideal \in {IF Len(params) = 2
                     THEN qaoa_H_ideal(kind, Hamiltonian, num_qubits, params)
                     ELSE NoValue} :
          \E cnt \in CountsSet(num_qubits) :
              \E out \in {qaoa_score(kind, Hamiltonian, params, ideal, cnt)} :
                  /\ counts' = cnt
                  /\ H_ideal' = out.H_ideal
                  /\ H_experimental' = out.H_experimental
                  /\ result' = out.result
    /\ call' = "score"
    /\ UNCHANGED <<pc, inst, loop, swap>>

(* test_qaoa_score: score(exact distribution of self.circuit()) *)
QAOAScoreIdeal ==
    /\ pc = "ready"
    /\ kind \in QAOAKinds
    /\ Len(params) = 2
    /\ \E ideal \in {qaoa_H_ideal(kind, Hamiltonian, num_qubits, params)} :
          \E cnt \in {ideal_distribution(num_qubits, final_state_vector(num_qubits, params))} :
              \E out \in {qaoa_score(kind, Hamiltonian, params, ideal, cnt)} :
                  /\ counts' = cnt
                  /\ H_ideal' = out.H_ideal
                  /\ H_experimental' = out.H_experimental
                  /\ result' = out.result
    /\ call' = "score"
    /\ UNCHANGED <<pc, inst, loop, swap>>

----------------------------------------------------------------------------
(* VQEProxy *)

\* variant of gen_tfim_Hamiltonian without the wrap-around term: an open chain
gen_tfim_Hamiltonian_open(n) ==
    [i \in 1..n |-> <<"X", <<i - 1>>, 1>>]
        \o [i \in 1..(n - 1) |-> <<"ZZ", <<i - 1, i>>, 1>>]

\* _gen_tfim_Hamiltonian: ["X", i, 1] for every qubit, ["ZZ", (i, i + 1), 1] for
\* i < n - 1 and ["ZZ", (n - 1, 0), 1]; the qubit of an X term is kept as a
\* 1-tuple so that all terms have the same shape
gen_tfim_Hamiltonian(n) ==
    [i \in 1..n |-> <<"X", <<i - 1>>, 1>>]
        \o [i \in 1..(n - 1) |-> <<"ZZ", <<i - 1, i>>, 1>>]
        \o << <<"ZZ", <<n - 1, 0>>, 1>> >>

\* variant of NumParams that counts three rotation blocks per layer
NumParams_three_blocks(n, layers) == layers * 3 * n

\* len(init_params) in _get_opt_angles
NumParams(n, layers) == layers * 4 * n

\* one rotation block of _gen_ansatz that starts with param_counter = c: the
\* gate and the index of each read params[param_counter], in order
rotation_block(gate, n, c) == [i \in 1..n |-> <<gate, c + i - 1>>]

RECURSIVE gen_ansatz_reads(_, _, _)
\* the reads of _gen_ansatz for `layers` more layers from param_counter = c on:
\* per layer the Ry block, the Rz block, the entanglers (which read no
\* parameter), the Ry block and the Rz block
gen_ansatz_reads(n, layers, c) ==
    IF layers <= 0 THEN <<>>
    ELSE rotation_block("Ry", n, c) \o rotation_block("Rz", n, c + n)
            \o rotation_block("Ry", n, c + 2 * n) \o rotation_block("Rz", n, c + 3 * n)
            \o gen_ansatz_reads(n, layers - 1, c + 4 * n)

\* parameter vectors the optimizer may return, in units of pi/4: the modelled
\* vectors are zero except in the last layer's second Ry block (the n indices
\* up to the last n), so that all entanglers act on |0...0> and the circuit
\* prepares a product state; on more than 2 qubits all qubits get the same angle
VQEParamSet(n, layers) ==
    {[k \in 1..NumParams(n, layers) |->
        IF k \in (NumParams(n, layers) - 2 * n + 1)..(NumParams(n, layers) - n)
        THEN a[k - (NumParams(n, layers) - 2 * n)] ELSE 0] :
        a \in IF n <= 2 THEN [1..n -> 0..3] ELSE {[q \in 1..n |-> t] : t \in 0..3}}

\* squared amplitudes <<of |0>, of |1>>> (over 2) of Ry(2 * t * pi/4)|0> measured in
\* the Z basis (Ry(0)|0> = |0>, Ry(pi/2)|0> = |+>, Ry(pi)|0> = |1>, Ry(3pi/2)|0> = -|->)
z_weights(t) == IF t = 0 THEN <<2, 0>> ELSE IF t = 2 THEN <<0, 2>> ELSE <<1, 1>>

\* the same after the H gate that x_circuit appends
x_weights(t) == IF t = 1 THEN <<2, 0>> ELSE IF t = 3 THEN <<0, 2>> ELSE <<1, 1>>

RECURSIVE ProdTo(_, _)
ProdTo(s, k) == IF k = 0 THEN 1 ELSE s[k] * ProdTo(s, k - 1)

\* variant of gen_ansatz_bases that returns the X-basis circuit first
gen_ansatz_bases_swapped == <<"X", "Z">>

\* return [z_circuit, x_circuit]: the measurement basis of each returned circuit
gen_ansatz_bases == <<"Z", "X">>

\* circuit.final_state_vector() of z_circuit ("Z") and x_circuit ("X") of
\* _gen_ansatz(prm), as squared amplitudes by basis index over 2^n
vqe_final_state_vector(n, prm, basis) ==
    [i \in 1..Pow2(n) |->
        LET b == Format(i - 1, n)
        IN  ProdTo([q \in 1..n |->
                      LET t == prm[Len(prm) - 2 * n + q]
                      IN  IF basis = "Z" THEN z_weights(t)[b[q] + 1]
                          ELSE x_weights(t)[b[q] + 1]], n)] \o <<>>

\* _get_ideal_probs: bitstring of index i -> |amplitude|^2
get_ideal_probs(n, sv) ==
    [items |-> [i \in 1..Len(sv) |-> <<Format(i - 1, n), sv[i]>>], den |-> Sum(sv)]

\* _parity_ones
parity_ones(item) == Sum(item) % 2

\* _calc with probs.get(bitstr, 0) = p
calc(bit_list, p) ==
    Sum([k \in 1..Len(bit_list) |-> IF parity_ones(bit_list[k]) = 0 THEN p ELSE -p])

\* bit_list_X = [bitstr[i] for i in range(len(bitstr))]
bit_list_X(bitstr) == [i \in 1..Len(bitstr) |-> <<bitstr[i]>>]

\* variant of bit_list_Z without the wrap-around item
bit_list_Z_open(bitstr) == [i \in 1..(Len(bitstr) - 1) |-> <<bitstr[i], bitstr[i + 1]>>]

\* bit_list_Z = [bitstr[i - 1 : i + 1] for i in range(1, len(bitstr))]
\*              + [bitstr[0] + bitstr[-1]]
bit_list_Z(bitstr) ==
    [i \in 1..(Len(bitstr) - 1) |-> <<bitstr[i], bitstr[i + 1]>>]
        \o << <<bitstr[1], bitstr[Len(bitstr)]>> >>

\* one of the two loops of VQEProxy._get_expected_H_from_probs
vqe_energy_of(probs, basis) ==
    LET items == probs.items
        m     == Len(items)
    IN  IF m = 0 THEN Zero
        ELSE Rat(Sum([i \in 1..m |->
                        LET item == items[i]
                        IN  calc(IF basis = "Z" THEN bit_list_Z(Key(item))
                                 ELSE bit_list_X(Key(item)), Val(item))]),
                 probs.den)

\* VQEProxy._get_expected_H_from_probs(probs_Z, probs_X)
vqe_expected_H_from_probs(probs_Z, probs_X) ==
    RatAdd(vqe_energy_of(probs_X, "X"), vqe_energy_of(probs_Z, "Z"))

\* ideal_H of score(): circuit_Z, circuit_X = self.circuit(), then the energy of
\* their exact output distributions
vqe_H_ideal(n, prm) ==
    CHOOSE h \in
        {vqe_expected_H_from_probs(probs_Z, probs_X) :
            probs_Z \in {get_ideal_probs(n, sv) :
                            sv \in {vqe_final_state_vector(n, prm, gen_ansatz_bases[1])}},
            probs_X \in {get_ideal_probs(n, sv) :
                            sv \in {vqe_final_state_vector(n, prm, gen_ansatz_bases[2])}}} : TRUE

\* {bitstr: count / shots for bitstr, count in counts.items()}
counts_to_probs(cnt) == [items |-> cnt, den |-> Total(cnt)]

\* variant of energy_score_vqe without abs() on the denominator
energy_score_vqe_signed(ideal, experimental) ==
    LET dev == RatAbs(RatSub(ideal, experimental))
    IN  IF ideal[1] = 0
        THEN NonFinite(IF dev[1] = 0 THEN "nan" ELSE "-inf")
        ELSE Float(RatSub(One, Rat(dev[1] * ideal[2], dev[2] * 2 * ideal[1])))

\* float(1.0 - abs(ideal_H - experimental_H) / abs(2 * ideal_H)), a numpy division
energy_score_vqe(ideal, experimental) ==
    LET dev == RatAbs(RatSub(ideal, experimental))
    IN  IF ideal[1] = 0
        THEN NonFinite(IF dev[1] = 0 THEN "nan" ELSE "-inf")
        ELSE Float(RatSub(One, Rat(dev[1] * ideal[2], dev[2] * 2 * Abs(ideal[1]))))

\* VQEProxy.score(counts): the experimental energy is computed first
vqe_score(ideal, cnt) ==
    IF Len(cnt) # 2 THEN ScoreOut(NoValue, NoValue, Raise("ValueError"))
    ELSE IF \E c \in 1..2 : Len(cnt[c]) > 0 /\ Total(cnt[c]) = 0
    THEN ScoreOut(NoValue, NoValue, Raise("ZeroDivisionError"))
    ELSE LET experimental == vqe_expected_H_from_probs(counts_to_probs(cnt[1]),
                                                       counts_to_probs(cnt[2]))
         IN  ScoreOut(ideal, experimental, energy_score_vqe(ideal, experimental))

\* pairs [counts_Z, counts_X] a caller may pass to VQEProxy.score: the two
\* histograms hold at most MaxShots shots together
VQECountsTable ==
    [n \in VQEQubitCounts |->
        {<<z, x>> : z \in CountsSet(n), x \in CountsSet(n)}
            \cap {p \in Seq(CountsSet(n)) : Len(p) = 2 /\ Total(p[1]) + Total(p[2]) <= MaxShots}]
VQECountsSet(n) == VQECountsTable[n]

\* _gen_ansatz(params): the list [z_circuit, x_circuit], unless a read
\* params[param_counter] is past the end of params
vqe_circuit(n, layers, prm) ==
    LET reads == gen_ansatz_reads(n, layers, 0)
    IN  IF \E k \in 1..Len(reads) : reads[k][2] >= Len(prm) THEN Raise("IndexError")
        ELSE [Circuit(n, Len(gen_ansatz_bases))
                  EXCEPT !.what = gen_ansatz_bases[1] \o gen_ansatz_bases[2]]

\* ideal_H of score() for every instance the model constructs
VQEIdealTable ==
    [n \in VQEQubitCounts |->
        [layers \in VQELayerCounts |->
            [prm \in VQEParamSet(n, layers) |-> vqe_H_ideal(n, prm)]]]

(* __init__ up to the call of _gen_angles *)
VQEInit(n, layers) ==
    /\ pc = "start"
    /\ pc' = "gen_angles"
    /\ args' = <<n, layers, <<>>>>
    /\ kind' = "VQEProxy"
    /\ num_qubits' = n
    /\ num_layers' = layers
    /\ Hamiltonian' = gen_tfim_Hamiltonian(n)
    /\ UNCHANGED <<num_rounds, phase_state, params, loop, last, swap>>

(* _gen_angles: params, _ = self._get_opt_angles(); self._params = params *)
VQEGenAngles ==
    /\ pc = "gen_angles"
    /\ kind = "VQEProxy"
    /\ params' \in VQEParamSet(num_qubits, num_layers)
    /\ opt_runs' = opt_runs + 1
    /\ pc' = "ready"
    /\ UNCHANGED <<args, kind, num_qubits, num_rounds, phase_state, num_layers, Hamiltonian,
                   best_params, best_cost, restart, any_negative, earliest_min, last, swap>>

(* circuit(): the list [z_circuit, x_circuit] of _gen_ansatz(self._params) *)
VQECircuit ==
    /\ pc = "ready"
    /\ kind = "VQEProxy"
    /\ call' = "circuit"
    /\ counts' = <<>>
    /\ H_ideal' = NoValue
    /\ H_experimental' = NoValue
    /\ result' = vqe_circuit(num_qubits, num_layers, params)
    /\ UNCHANGED <<pc, inst, loop, swap>>

VQEScore ==
    /\ pc = "ready"
    /\ kind = "VQEProxy"
    /\ \E ideal \in {VQEIdealTable[num_qubits][num_layers][params]} :
          \E cnt \in VQECountsSet(num_qubits) :
              \E out \in {vqe_score(ideal, cnt)} :
                  /\ counts' = cnt
                  /\ H_ideal' = out.H_ideal
                  /\ H_experimental' = out.H_experimental
                  /\ result' = out.result
    /\ call' = "score"
    /\ UNCHANGED <<pc, inst, loop, swap>>

(* test_vqe_score: score([exact distribution of each circuit of self.circuit()]) *)
VQEScoreIdeal ==
    /\ pc = "ready"
    /\ kind = "VQEProxy"
    /\ \E ideal \in {VQEIdealTable[num_qubits][num_layers][params]} :
          \E cnt \in {[k \in 1..Len(gen_ansatz_bases) |->
                          ideal_distribution(num_qubits,
                              vqe_final_state_vector(num_qubits, params,
                                                     gen_ansatz_bases[k]))]} :
              \E out \in {vqe_score(ideal, cnt)} :
                  /\ counts' = cnt
                  /\ H_ideal' = out.H_ideal
                  /\ H_experimental' = out.H_experimental
                  /\ result' = out.result
    /\ call' = "score"
    /\ UNCHANGED <<pc, inst, loop, swap>>

----------------------------------------------------------------------------
(* hellinger_fidelity (qiskit.quantum_info), used by GHZ and PhaseCode *)

\* the largest s with s * s dividing x (x >= 1)
SquarePart(x) ==
    LET S == {s \in 1..x : s * s <= x /\ x % (s * s) = 0}
    IN  CHOOSE s \in S : \A t \in S : t <= s

\* x with its largest square factor removed
SquareFree(x) == x \div (SquarePart(x) * SquarePart(x))

RECURSIVE SortedSeq(_)
\* a finite set of integers in increasing order
SortedSeq(S) ==
    IF S = {} THEN <<>>
    ELSE LET m == CHOOSE x \in S : \A y \in S : x <= y
         IN  <<m>> \o SortedSeq(S \ {m})

RECURSIVE GCDAll(_, _)
\* the greatest common divisor of g and the numbers of the sequence s
GCDAll(g, s) == IF s = <<>> THEN g ELSE GCDAll(GCD(g, Abs(Head(s))), Tail(s))

\* (sum of sqrt(ms[i]))^2 / den in lowest terms: the sum over the ordered pairs
\* (i, j) of sqrt(ms[i] * ms[j]) = s * sqrt(d), d free of squares, collected by d
SquaredSurdSum(ms, den) ==
    LET I       == 1..Len(ms)
        P       == I \X I
        sq(p)   == SquarePart(ms[p[1]] * ms[p[2]])
        free(p) == SquareFree(ms[p[1]] * ms[p[2]])
        ds      == SortedSeq({free(p) : p \in P} \ {1})
        pairs(d) == SortedSeq({(p[1] - 1) * Len(ms) + p[2] : p \in {q \in P : free(q) = d}})
        at(k)   == <<((k - 1) \div Len(ms)) + 1, ((k - 1) % Len(ms)) + 1>>
        coef(d) == LET ks == pairs(d) IN Sum([i \in 1..Len(ks) |-> sq(at(ks[i]))])
        cs      == [i \in 1..Len(ds) |-> coef(ds[i])]
        rat     == coef(1)
        g       == GCDAll(GCD(den, rat), cs)
    IN  [tag |-> "float", num |-> rat \div g, den |-> den \div g, what |-> "",
         surds |-> [i \in 1..Len(ds) |-> <<ds[i], cs[i] \div g>>]]

\* hellinger_fidelity(dist_p, dist_q) = (1 - hellinger_distance^2)^2 of two
\* distributions given as items <<key, weight>>: both are normalized by their
\* totals, the keys they share contribute (sqrt(p) - sqrt(q))^2 and the other
\* keys their probability
hellinger_fidelity(dist_p, dist_q) ==
    IF (Len(dist_p) > 0 /\ Total(dist_p) = 0) \/ (Len(dist_q) > 0 /\ Total(dist_q) = 0)
    THEN Raise("ZeroDivisionError")
    ELSE IF Len(dist_p) = 0 /\ Len(dist_q) = 0 THEN Float(One)
    ELSE IF Len(dist_p) = 0 \/ Len(dist_q) = 0 THEN Float(<<1, 4>>)
    ELSE LET common == SelectSeq(dist_p, LAMBDA it : Val(it) * Get(dist_q, Key(it)) > 0)
             ms     == [i \in 1..Len(common) |-> Val(common[i]) * Get(dist_q, Key(common[i]))]
         IN  IF Len(ms) = 0 THEN Float(Zero)
             ELSE SquaredSurdSum(ms, Total(dist_p) * Total(dist_q))

----------------------------------------------------------------------------
(* GHZ *)

\* b * self.n
Repeat(b, n) == [i \in 1..n |-> b]

\* variant of ghz_ideal_dist with three quarters of the weight on the all-ones key
ghz_ideal_dist_skewed(n) == << <<Repeat(0, n), 1>>, <<Repeat(1, n), 3>> >>

\* ideal_dist = {b * self.n: 0.5 for b in ["0", "1"]}, as weights over 2
ghz_ideal_dist(n) == << <<Repeat(0, n), 1>>, <<Repeat(1, n), 1>> >>

\* GHZ.score(counts)
ghz_score(n, cnt) ==
    IF Len(cnt) > 0 /\ Total(cnt) = 0 THEN Raise("ZeroDivisionError")
    ELSE hellinger_fidelity(ghz_ideal_dist(n), cnt)

GHZInit(n) ==
    /\ pc = "start"
    /\ pc' = "ready"
    /\ args' = <<n, 0, <<>>>>
    /\ kind' = "GHZ"
    /\ num_qubits' = n
    /\ UNCHANGED <<num_rounds, phase_state, num_layers, Hamiltonian, params, loop, last, swap>>

GHZCircuit ==
    /\ pc = "ready"
    /\ kind = "GHZ"
    /\ call' = "circuit"
    /\ counts' = <<>>
    /\ result' = Circuit(num_qubits, 1)
    /\ UNCHANGED <<pc, inst, loop, H_ideal, H_experimental, swap>>

GHZScore ==
    /\ pc = "ready"
    /\ kind = "GHZ"
    /\ \E cnt \in CountsSet(num_qubits) :
          \E r \in {ghz_score(num_qubits, cnt)} :
              /\ counts' = cnt
              /\ result' = r
    /\ call' = "score"
    /\ UNCHANGED <<pc, inst, loop, H_ideal, H_experimental, swap>>

----------------------------------------------------------------------------
(* MerminBell *)

\* amplitudes are Gaussian integers <<re, im>>; every H and rx(-pi/2) leaves a
\* factor 1/sqrt(2), which is kept apart as a count of such gates
CAdd(a, b) == <<a[1] + b[1], a[2] + b[2]>>
CSub(a, b) == <<a[1] - b[1], a[2] - b[2]>>
CNeg(a)    == <<-a[1], -a[2]>>
CTimesI(a) == <<-a[2], a[1]>>
\* np.abs(amplitude) ** 2
CNorm2(a)  == a[1] * a[1] + a[2] * a[2]


\* variant of mermin_supported that also lets 5 qubits through
mermin_supported_upto5(n) == n = 3 \/ n = 4 \/ n = 5

\* if num_qubits != 3 and num_qubits != 4: raise ValueError
mermin_supported(n) == n = 3 \/ n = 4

\* sympy.I ** k
RECURSIVE IPow(_)
IPow(k) == IF k = 0 THEN <<1, 0>> ELSE CTimesI(IPow(k - 1))

\* the coefficient in M_n = (term1 - term2) / (2 * I) of the monomial that takes
\* y_j where b[j] = 1 and x_j where b[j] = 0: with k factors y it is I^k in
\* term1 and (-I)^k in term2
mermin_coefficient(b) ==
    LET k  == Sum(b)
        t1 == IPow(k)
        t2 == IF k % 2 = 0 THEN IPow(k) ELSE CNeg(IPow(k))
        d  == CSub(t1, t2)
    IN  <<d[2] \div 2, (-d[1]) \div 2>>

RECURSIVE pauli_string(_, _)
\* "".join(pauli) from position q on: char.upper() of the variable x_j or y_j of
\* the monomial
pauli_string(b, q) ==
    IF q > Len(b) THEN ""
    ELSE (IF b[q] = 0 THEN "X" ELSE "Y") \o pauli_string(b, q + 1)

\* variant of mermin_operator that keeps the monomials left by term1 + term2
mermin_operator_sum(n) ==
    LET all  == [idx \in 1..Pow2(n) |->
                    LET b == Format(idx - 1, n)
                    IN  <<IF Sum(b) % 2 = 0 THEN <<1, 0>> ELSE <<0, 0>>, pauli_string(b, 1)>>]
        kept == SelectSeq(all, LAMBDA t : t[1] # <<0, 0>>)
    IN  [t \in 1..Len(kept) |-> <<kept[t][1][1], kept[t][2]>>]

\* _mermin_operator(n) as (coef, pauli): the monomials of the expanded and
\* simplified M_n (those with a non-zero coefficient), coef = term[1][0][0] the
\* real part; the order of the terms is the order of the monomials' y-patterns
mermin_operator(n) ==
    LET all  == [idx \in 1..Pow2(n) |->
                    LET b == Format(idx - 1, n)
                    IN  <<mermin_coefficient(b), pauli_string(b, 1)>>]
        kept == SelectSeq(all, LAMBDA t : t[1] # <<0, 0>>)
    IN  [t \in 1..Len(kept) |-> <<kept[t][1][1], kept[t][2]>>]

MerminOperatorTable == [n \in {3, 4} |-> mermin_operator(n)]

\* variant of count_dict in which every setting has coef 1
count_dict_all_positive(n) ==
    IF n = 3
    THEN << <<"XXY", <<0>>, 1>>, <<"XYX", <<1>>, 1>>, <<"YXX", <<2>>, 1>>,
            <<"YYY", <<0, 1, 2>>, 1>> >>
    ELSE << <<"XXXY", <<0>>, 1>>, <<"XXYX", <<1>>, 1>>, <<"XYXX", <<2>>, 1>>,
            <<"YXXX", <<3>>, 1>>, <<"XYYY", <<0, 1, 2>>, 1>>, <<"YXYY", <<0, 1, 3>>, 1>>,
            <<"YYXY", <<0, 2, 3>>, 1>>, <<"YYYX", <<1, 2, 3>>, 1>> >>

\* count_dict of _mermin_score_N3 / _mermin_score_N4: pauli -> (qubits, coef)
count_dict(n) ==
    IF n = 3
    THEN << <<"XXY", <<0>>, 1>>, <<"XYX", <<1>>, 1>>, <<"YXX", <<2>>, -1>>,
            <<"YYY", <<0, 1, 2>>, 1>> >>
    ELSE << <<"XXXY", <<0>>, 1>>, <<"XXYX", <<1>>, 1>>, <<"XYXX", <<2>>, 1>>,
            <<"YXXX", <<3>>, -1>>, <<"XYYY", <<0, 1, 2>>, -1>>, <<"YXYY", <<0, 1, 3>>, 1>>,
            <<"YYXY", <<0, 2, 3>>, 1>>, <<"YYYX", <<1, 2, 3>>, 1>> >>

\* the keys of count_dict
count_keys(n) == {count_dict(n)[k][1] : k \in 1..Len(count_dict(n))}

\* count_dict[pauli], for a key of count_dict
count_entry(n, pauli) ==
    LET d == count_dict(n)
    IN  d[CHOOSE k \in 1..Len(d) : d[k][1] = pauli]

\* variant of mermin_parity that reads the bitstring as little endian
mermin_parity_little_endian(bitstr, meas_qb, meas_coef) ==
    IF Sum([k \in 1..Len(meas_qb) |-> bitstr[Len(bitstr) - meas_qb[k]]]) % 2 = 0
    THEN meas_coef ELSE -meas_coef

\* parity = meas_coef * 1; for qb in meas_qb: if bitstr[qb] == "1": parity = -parity
mermin_parity(bitstr, meas_qb, meas_coef) ==
    IF Sum([k \in 1..Len(meas_qb) |-> bitstr[meas_qb[k] + 1]]) % 2 = 0
    THEN meas_coef ELSE -meas_coef

\* numerator of one term of the Mermin operator
mermin_numerator(n, term, cnt) ==
    LET e == count_entry(n, term[2])
    IN  Sum([i \in 1..Len(cnt) |->
                term[1] * mermin_parity(Key(cnt[i]), e[2], e[3]) * Val(cnt[i])])

\* variant of mermin_bound that takes the 3-qubit constant for 4 qubits too
mermin_bound_of_n3(n) == 4

\* the 4 of `(expect_val + 4) / 8` and the 8 of `(expect_val + 8) / 16`
mermin_bound(n) == IF n = 3 THEN 4 ELSE 8

\* _mermin_score_N3 / _mermin_score_N4; each iteration of `for term in
\* mermin_op` looks count_dict[pauli] up and then divides by the total
mermin_score(n, cnt) ==
    LET op      == MerminOperatorTable[n]
        missing == {t \in 1..Len(op) : op[t][2] \notin count_keys(n)}
    IN  IF 1 \in missing THEN Raise("KeyError")
        ELSE IF Len(op) > 0 /\ Total(cnt) = 0 THEN Raise("ZeroDivisionError")
        ELSE IF missing # {} THEN Raise("KeyError")
        ELSE LET num == Sum([t \in 1..Len(op) |-> mermin_numerator(n, op[t], cnt)])
                 top == mermin_bound(n)
             IN  Float(Rat(num + top * Total(cnt), 2 * top * Total(cnt)))

\* Counters of at most `shots` shots on one of the 2^n bitstrings, or on one
\* and the bitstring of the next index (which may hold the count 0)
TwoKeyHistograms(n, shots) ==
    {<< <<Format(a, n), c>> >> : a \in 0..(Pow2(n) - 1), c \in 1..shots}
        \cup {<< <<Format(p[1], n), p[2]>>, <<Format((p[1] + 1) % Pow2(n), n), p[3]>> >> :
                 p \in {q \in (0..(Pow2(n) - 1)) \X (1..shots) \X (0..shots) :
                            q[2] + q[3] <= shots}}

\* the measurement results a caller may pass to MerminBell.score
MerminCountsTable == [n \in {3, 4} |-> CountsSet(n) \cup TwoKeyHistograms(n, MaxShots)]

MerminBellInit(n) ==
    /\ pc = "start"
    /\ args' = <<n, 0, <<>>>>
    /\ kind' = "MerminBell"
    /\ IF mermin_supported(n)
       THEN /\ num_qubits' = n
            /\ pc' = "ready"
            /\ UNCHANGED result
       ELSE /\ pc' = "failed"
            /\ result' = Raise("ValueError")
            /\ UNCHANGED num_qubits
    /\ UNCHANGED <<num_rounds, phase_state, num_layers, Hamiltonian, params, loop,
                   call, counts, H_ideal, H_experimental, swap>>

MerminBellCircuit ==
    /\ pc = "ready"
    /\ kind = "MerminBell"
    /\ call' = "circuit"
    /\ counts' = <<>>
    /\ result' = Circuit(num_qubits, 1)
    /\ UNCHANGED <<pc, inst, loop, H_ideal, H_experimental, swap>>

MerminBellScore ==
    /\ pc = "ready"
    /\ kind = "MerminBell"
    /\ \E cnt \in MerminCountsTable[num_qubits] :
          \E r \in {mermin_score(num_qubits, cnt)} :
              /\ counts' = cnt
              /\ result' = r
    /\ call' = "score"
    /\ UNCHANGED <<pc, inst, loop, H_ideal, H_experimental, swap>>

----------------------------------------------------------------------------
(* MerminBell.circuit, simulated exactly *)

\* bit of qubit q in the big-endian basis index i of an n-qubit register
qubit_bit(i, q, n) == (i \div Pow2(n - 1 - q)) % 2

\* the basis index that differs from i in qubit q only
qubit_flip(i, q, n) ==
    IF qubit_bit(i, q, n) = 0 THEN i + Pow2(n - 1 - q) ELSE i - Pow2(n - 1 - q)

\* the ops of circuit() before the measurement, as <<gate, qubit, qubit>>
mermin_ops(n) ==
    IF n = 3
    THEN << <<"RX", 0, 0>>, <<"CNOT", 0, 1>>, <<"CNOT", 1, 2>>, <<"H", 1, 1>>,
            <<"H", 2, 2>>, <<"CNOT", 0, 2>>, <<"CNOT", 1, 2>>, <<"CNOT", 2, 0>>,
            <<"CNOT", 1, 0>>, <<"S", 2, 2>>, <<"S", 0, 0>>, <<"H", 2, 2>>,
            <<"CZ", 0, 1>>, <<"H", 0, 0>>, <<"S", 1, 1>>, <<"H", 1, 1>> >>
    ELSE << <<"RX", 0, 0>>, <<"CNOT", 0, 1>>, <<"CNOT", 1, 2>>, <<"CNOT", 2, 3>>,
            <<"H", 1, 1>>, <<"H", 2, 2>>, <<"H", 3, 3>>, <<"CNOT", 0, 3>>,
            <<"SWAP", 1, 2>>, <<"CNOT", 1, 3>>, <<"CNOT", 2, 3>>, <<"CNOT", 3, 0>>,
            <<"CNOT", 2, 0>>, <<"CNOT", 1, 0>>, <<"S", 3, 3>>, <<"H", 3, 3>>,
            <<"S", 0, 0>>, <<"CZ", 0, 1>>, <<"S", 1, 1>>, <<"CZ", 0, 2>>,
            <<"CZ", 1, 2>>, <<"H", 0, 0>>, <<"H", 1, 1>>, <<"S", 2, 2>>,
            <<"H", 2, 2>> >>

\* one gate applied to the state vector st (st[i + 1] is the amplitude of basis
\* index i); rx(-pi/2) = [[1, i], [i, 1]] / sqrt(2), H = [[1, 1], [1, -1]] / sqrt(2)
apply_gate(n, st, g) ==
    LET a == g[2]
        b == g[3]
        amp(i) == st[i + 1]
        new(i) ==
            CASE g[1] = "H" ->
                    IF qubit_bit(i, a, n) = 0
                    THEN CAdd(amp(i), amp(qubit_flip(i, a, n)))
                    ELSE CSub(amp(qubit_flip(i, a, n)), amp(i))
              [] g[1] = "RX" ->
                    CAdd(amp(i), CTimesI(amp(qubit_flip(i, a, n))))
              [] g[1] = "S" ->
                    IF qubit_bit(i, a, n) = 1 THEN CTimesI(amp(i)) ELSE amp(i)
              [] g[1] = "CNOT" ->
                    IF qubit_bit(i, a, n) = 1 THEN amp(qubit_flip(i, b, n)) ELSE amp(i)
              [] g[1] = "CZ" ->
                    IF qubit_bit(i, a, n) = 1 /\ qubit_bit(i, b, n) = 1
                    THEN CNeg(amp(i)) ELSE amp(i)
              [] g[1] = "SWAP" ->
                    IF qubit_bit(i, a, n) # qubit_bit(i, b, n)
                    THEN amp(qubit_flip(qubit_flip(i, a, n), b, n)) ELSE amp(i)
    IN  [idx \in 1..Pow2(n) |-> new(idx - 1)] \o <<>>

RECURSIVE run_gates(_, _, _, _)
\* the state vector after ops[k], ops[k + 1], ... applied to st
run_gates(n, ops, k, st) ==
    IF k > Len(ops) THEN st
    ELSE run_gates(n, ops, k + 1, apply_gate(n, st, ops[k]))

\* circuit.final_state_vector() of MerminBell(n).circuit(), times sqrt(2)^k for
\* the k gates H and rx among the ops
mermin_final_state_vector(n) ==
    run_gates(n, mermin_ops(n), 1,
              [idx \in 1..Pow2(n) |-> IF idx = 1 THEN <<1, 0>> ELSE <<0, 0>>])

\* get_ideal_counts(mb.circuit()) of the tests: all 2^n big-endian keys with
\* their probabilities (as weights over the common denominator 2^k)
mermin_ideal_counts(n) ==
    LET sv == mermin_final_state_vector(n)
    IN  ideal_distribution(n, [idx \in 1..Pow2(n) |-> CNorm2(sv[idx])])

MerminIdealTable == [n \in {3, 4} |-> mermin_ideal_counts(n)]

(* score(get_ideal_counts(circuit())) *)
MerminBellScoreIdeal ==
    /\ pc = "ready"
    /\ kind = "MerminBell"
    /\ \E cnt \in {MerminIdealTable[num_qubits]} :
          \E r \in {mermin_score(num_qubits, cnt)} :
              /\ counts' = cnt
              /\ result' = r
    /\ call' = "score"
    /\ UNCHANGED <<pc, inst, loop, H_ideal, H_experimental, swap>>

----------------------------------------------------------------------------
(* PhaseCode *)

\* phase_state: List[int] = [0, 1, 0]
DefaultPhaseState == <<0, 1, 0>>

\* the phase_state arguments the constructor is called with
PhaseStates == {<<>>, <<0>>, <<1>>, <<0, 1>>, <<1, 1>>, DefaultPhaseState}

\* variant of phase_state_mismatch that only rejects a phase_state that is too long
phase_state_longer(ps, n) == Len(ps) > n

\* if len(phase_state) != num_data_qubits: raise ValueError
phase_state_mismatch(ps, n) == Len(ps) # n

\* variant of phase_num_qubits without the ancilla qubits
phase_num_qubits_data_only(n) == n

\* num_qubits = 2 * self.num_data_qubits - 1
phase_num_qubits(n) == 2 * n - 1

\* the bitstring measured by circuit() when the data qubits (even indices) read
\* `data`: each data qubit ends in |+> or |->, so its bit is uniformly random;
\* the ancilla between data qubits i and i + 1 reads the parity of their phase
\* bits after a measurement round and stays 0 without one
phase_outcome(n, rounds, ps, data) ==
    [q \in 1..phase_num_qubits(n) |->
        IF q % 2 = 1 THEN data[(q + 1) \div 2]
        ELSE IF rounds = 0 THEN 0
        ELSE (ps[q \div 2] + ps[(q \div 2) + 1]) % 2]

\* the bitstrings circuit() outputs with non-zero probability
phase_support(n, rounds, ps) ==
    [d \in 1..Pow2(n) |-> phase_outcome(n, rounds, ps, Format(d - 1, n))]

\* _get_dist: the histograms a run of `shots` repetitions may give, val / shots
\* as weights over shots
get_dist(n, rounds, ps, shots) ==
    {h \in Histograms(phase_support(n, rounds, ps), shots) : Total(h) = shots}

\* variant of phase_score that divides by total_shots for an empty Counter too
phase_score_dividing(ideal_dist, cnt) ==
    IF Total(cnt) = 0 THEN Raise("ZeroDivisionError")
    ELSE hellinger_fidelity(ideal_dist, cnt)

\* PhaseCode.score(counts) with ideal_dist the histogram _get_dist returned
phase_score(ideal_dist, cnt) ==
    IF Len(cnt) > 0 /\ Total(cnt) = 0 THEN Raise("ZeroDivisionError")
    ELSE hellinger_fidelity(ideal_dist, cnt)

PhaseCodeInit(n, rounds, ps) ==
    /\ pc = "start"
    /\ args' = <<n, rounds, ps>>
    /\ kind' = "PhaseCode"
    /\ IF phase_state_mismatch(ps, n)
       THEN /\ pc' = "failed"
            /\ result' = Raise("ValueError")
            /\ UNCHANGED <<num_qubits, num_rounds, phase_state>>
       ELSE /\ num_qubits' = n
            /\ num_rounds' = rounds
            /\ phase_state' = ps
            /\ pc' = "ready"
            /\ UNCHANGED result
    /\ UNCHANGED <<num_layers, Hamiltonian, params, loop,
                   call, counts, H_ideal, H_experimental, swap>>

PhaseCodeCircuit ==
    /\ pc = "ready"
    /\ kind = "PhaseCode"
    /\ call' = "circuit"
    /\ counts' = <<>>
    /\ result' = Circuit(phase_num_qubits(num_qubits), 1)
    /\ UNCHANGED <<pc, inst, loop, H_ideal, H_experimental, swap>>

PhaseCodeScore ==
    /\ pc = "ready"
    /\ kind = "PhaseCode"
    /\ \E ideal_dist \in get_dist(num_qubits, num_rounds, phase_state, SampleShots) :
          \E cnt \in CountsSet(phase_num_qubits(num_qubits)) :
              \E r \in {phase_score(ideal_dist, cnt)} :
                  /\ counts' = cnt
                  /\ result' = r
    /\ call' = "score"
    /\ UNCHANGED <<pc, inst, loop, H_ideal, H_experimental, swap>>

----------------------------------------------------------------------------
(* QAOAFermionicSwapProxy._gen_swap_network, one interact+swap step at a time *)

\* range(start, stop, 2) as a sequence
RECURSIVE Range2(_, _)
Range2(start, stop) == IF start >= stop THEN <<>> ELSE <<start>> \o Range2(start + 2, stop)

\* cover_a = [(idx - 1, idx) for idx in range(1, self.num_qubits, 2)]
cover_a(n) == LET r == Range2(1, n) IN [k \in 1..Len(r) |-> <<r[k] - 1, r[k]>>]

\* variant of cover_b that starts at idx 1 like cover_a
cover_b_from_one(n) == LET r == Range2(1, n) IN [k \in 1..Len(r) |-> <<r[k] - 1, r[k]>>]

\* cover_b = [(idx - 1, idx) for idx in range(2, self.num_qubits, 2)]
cover_b(n) == LET r == Range2(2, n) IN [k \in 1..Len(r) |-> <<r[k] - 1, r[k]>>]

\* variant of cover that takes cover_a in every layer
cover_always_a(n, l) == cover_a(n)

\* cover = [cover_a, cover_b][layer % 2]
cover(n, l) == IF l % 2 = 0 THEN cover_a(n) ELSE cover_b(n)

\* np.arange(self.num_qubits)
arange(n) == [k \in 1..n |-> k - 1]

\* variant of lookup_weight that compares edge[1] only
lookup_weight_second_only(H, v_i, v_j, old) ==
    LET hit == {k \in 1..Len(H) : H[k][2] = v_j}
    IN  IF hit = {} THEN old ELSE H[CHOOSE k \in hit : \A m \in hit : m <= k][3]

\* for edge in self.Hamiltonian: if v_i == edge[0] and v_j == edge[1]: weight = edge[2]
\* (the last matching edge wins; without a match the local keeps what it held)
lookup_weight(H, v_i, v_j, old) ==
    LET hit == {k \in 1..Len(H) : H[k][1] = v_i /\ H[k][2] = v_j}
    IN  IF hit = {} THEN old ELSE H[CHOOSE k \in hit : \A m \in hit : m <= k][3]

\* variant of swap_entries that leaves virtual_map as it is
swap_entries_none(vm, i, j) == vm

\* virtual_map[j], virtual_map[i] = virtual_map[i], virtual_map[j]
swap_entries(vm, i, j) ==
    [k \in 1..Len(vm) |-> IF k = i + 1 THEN vm[j + 1] ELSE IF k = j + 1 THEN vm[i + 1] ELSE vm[k]]

\* the weights the swap network is built with: all edges +1 or all edges -1
UniformWeights(m) == {[k \in 1..m |-> 1], [k \in 1..m |-> -1]}

\* the weights of the instances the swap network is built for
SwapWeights(n) ==
    IF n <= MaxMixedQubits THEN RandomWeights(NumWeights(n))
    ELSE UniformWeights(NumWeights(n))

\* the local `weight` before its first assignment
Unbound == 0

(* a QAOAFermionicSwapProxy instance enters _gen_swap_network: the H layer, the
   covers and virtual_map = np.arange(n) *)
SwapStart(n) ==
    /\ pc = "start"
    /\ pc' = "swap_network"
    /\ args' = <<n, 0, <<>>>>
    /\ kind' = "QAOAFermionicSwapProxy"
    /\ num_qubits' = n
    /\ Hamiltonian' \in {gen_sk_Hamiltonian(n, w, o) : w \in SwapWeights(n),
                                                       o \in Shuffles(NumWeights(n))}
    /\ layer' = 0
    /\ pair' = 0
    /\ virtual_map' = arange(n)
    /\ weight' = Unbound
    /\ cnots' = 0
    /\ interactions' = <<>>
    /\ UNCHANGED <<num_rounds, phase_state, num_layers, params, loop, last>>

(* one pair of the layer's cover: weight lookup, CNOT rz CNOT CNOT, map update *)
SwapStep ==
    /\ pc = "swap_network"
    /\ layer < num_qubits
    /\ pair < Len(cover(num_qubits, layer))
    /\ LET p   == cover(num_qubits, layer)[pair + 1]
           v_i == virtual_map[p[1] + 1]
           v_j == virtual_map[p[2] + 1]
           w   == lookup_weight(Hamiltonian, v_i, v_j, weight)
       IN  IF w = Unbound
           THEN /\ pc' = "failed"
                /\ result' = Raise("UnboundLocalError")
                /\ UNCHANGED <<pair, virtual_map, weight, cnots, interactions>>
           ELSE /\ weight' = w
                /\ cnots' = cnots + 3
                /\ virtual_map' = swap_entries(virtual_map, p[1], p[2])
                /\ pair' = pair + 1
                /\ interactions' = Append(interactions, <<v_i, v_j>>)
                /\ UNCHANGED <<pc, result>>
    /\ UNCHANGED <<inst, loop, call, counts, H_ideal, H_experimental, layer>>

(* the layer's cover is exhausted: next iteration of `for layer in range(n)` *)
SwapNextLayer ==
    /\ pc = "swap_network"
    /\ layer < num_qubits
    /\ pair = Len(cover(num_qubits, layer))
    /\ layer' = layer + 1
    /\ pair' = 0
    /\ UNCHANGED <<pc, inst, loop, last, virtual_map, weight, cnots, interactions>>

(* after the last layer: the mixing layer, the measurement, return circuit *)
SwapReturn ==
    /\ pc = "swap_network"
    /\ layer = num_qubits
    /\ pc' = "swap_done"
    /\ result' = Circuit(num_qubits, 1)
    /\ UNCHANGED <<inst, loop, call, counts, H_ideal, H_experimental, swap>>

----------------------------------------------------------------------------
(* Properties *)

Variational == QAOAKinds \cup {"VQEProxy"}

\* the last call was score() and it returned or raised
Scored == pc = "ready" /\ call = "score"

\* the measurement input of the last score() call has a positive total
\* (VQEProxy: both histograms have)
PositiveTotal ==
    IF kind = "VQEProxy"
    THEN Len(counts) = 2 /\ Total(counts[1]) > 0 /\ Total(counts[2]) > 0
    ELSE Total(counts) > 0

\* the last score() call computed a non-zero ideal energy
IdealNonZero == H_ideal[2] > 0 /\ H_ideal[1] # 0

\* the exact big-endian output distribution(s) of the instance's own circuit()
IdealInput ==
    IF kind = "VQEProxy"
    THEN <<ideal_distribution(num_qubits, vqe_final_state_vector(num_qubits, params, "Z")),
           ideal_distribution(num_qubits, vqe_final_state_vector(num_qubits, params, "X"))>>
    ELSE ideal_distribution(num_qubits, final_state_vector(num_qubits, params))

\* the last call was score() on the exact output distribution(s) of circuit()
ScoredIdeal ==
    /\ Scored
    /\ kind \in Variational
    /\ kind \in QAOAKinds => Len(params) = 2
    /\ counts = IdealInput

\* C1: for every variational benchmark and every instance whose ideal energy
\* is non-zero, score on the exact big-endian output distribution(s) of the
\* benchmark's own circuit() returns exactly 1
C1_IdealScoresOne ==
    (ScoredIdeal /\ IdealNonZero) => result = Float(One)

\* a fermionic-swap instance on 3 qubits scored 1 on the exact distribution of
\* a circuit whose outcomes are not palindromes
C1_Witness ==
    /\ ScoredIdeal
    /\ IdealNonZero
    /\ kind = "QAOAFermionicSwapProxy"
    /\ num_qubits = 3
    /\ \E i \in 1..Len(counts) : Val(counts[i]) > 0 /\ Reverse(Key(counts[i])) # Key(counts[i])
    /\ result = Float(One)

\* 1 - |ideal - experimental| / (2 * |ideal|)
EnergyDeviationScore(ideal, experimental) ==
    LET dev == RatAbs(RatSub(ideal, experimental))
    IN  RatSub(One, Rat(dev[1] * ideal[2], dev[2] * 2 * Abs(ideal[1])))

C3_ScoreInUnitInterval ==
    (Scored /\ kind \in Variational /\ PositiveTotal /\ IdealNonZero)
        => /\ IsFinite(result)
           /\ RatLeq(Zero, Value(result))
           /\ RatLeq(Value(result), One)

\* C3 amended: with a positive total and a non-zero ideal energy the score is
\* finite and at most 1, and it is at least 0 exactly when the experimental
\* energy is within 2 * |ideal| of the ideal energy
C3_ScoreAtMostOne ==
    (Scored /\ kind \in Variational /\ PositiveTotal /\ IdealNonZero)
        => /\ IsFinite(result)
           /\ RatLeq(Value(result), One)
           /\ RatLeq(Zero, Value(result))
                <=> RatLeq(RatAbs(RatSub(H_ideal, H_experimental)),
                           <<2 * Abs(H_ideal[1]), H_ideal[2]>>)

\* a negative score with a non-zero ideal energy
C3_Witness ==
    /\ Scored
    /\ kind \in Variational
    /\ PositiveTotal
    /\ IdealNonZero
    /\ IsFinite(result)
    /\ RatLess(Value(result), Zero)

\* C4: after all n layers of the swap network virtual_map[k] = n - 1 - k for
\* every physical position k in 0..n-1, for every n >= 1
C4_MapReversed ==
    pc = "swap_done" =>
        \A k \in 0..(num_qubits - 1) : virtual_map[k + 1] = num_qubits - 1 - k

\* a finished swap network on at least 4 qubits
C4_Witness ==
    /\ pc = "swap_done"
    /\ num_qubits >= 4
    /\ cnots > 0

\* C5: if none of the 5 restarts of a QAOA benchmark's _gen_angles returned a
\* cost below 0, best_params is still [] after the loop and the constructor
\* stores [] as the parameters
C5_EmptyParams ==
    (kind \in QAOAKinds /\ ~any_negative) =>
        /\ pc = "gen_angles" => best_params = <<>>
        /\ pc = "ready" => params = <<>>

\* a constructed QAOA instance on more than one qubit, none of whose 5 runs
\* had a negative cost
C5_Witness ==
    /\ kind \in QAOAKinds
    /\ pc = "ready"
    /\ num_qubits >= 2
    /\ opt_runs = NumRestarts
    /\ ~any_negative
    /\ params = <<>>

\* C6 as claimed: constructing any variational benchmark runs the optimizer
\* exactly 5 times
C6_FiveRuns ==
    (pc = "ready" /\ kind \in Variational) => opt_runs = 5

\* C6 amended: constructing a QAOA benchmark runs the optimizer exactly 5
\* times, constructing VQEProxy runs it exactly once
C6_RunsPerKind ==
    /\ (pc = "ready" /\ kind \in QAOAKinds) => opt_runs = 5
    /\ (pc = "ready" /\ kind = "VQEProxy") => opt_runs = 1
    /\ (pc = "gen_angles" /\ kind \in QAOAKinds) => opt_runs = restart /\ opt_runs <= 5
    /\ (pc = "gen_angles" /\ kind = "VQEProxy") => opt_runs = 0

\* a constructed QAOA instance with accepted parameters
C6_Witness ==
    /\ pc = "ready"
    /\ kind \in QAOAKinds
    /\ opt_runs = 5
    /\ Len(params) = 2

\* C7: MerminBell(num_qubits) raises ValueError for every num_qubits other
\* than 3 and 4 and leaves no instance; for 3 and 4 it records num_qubits
C7_MerminSizes ==
    kind = "MerminBell" =>
        /\ pc \in {"failed", "ready"}
        /\ pc = "failed" <=> args[1] \notin {3, 4}
        /\ pc = "failed" => (result = Raise("ValueError") /\ num_qubits = 0)
        /\ pc = "ready" => num_qubits = args[1]

\* MerminBell(5) failed
C7_Witness ==
    /\ kind = "MerminBell"
    /\ pc = "failed"
    /\ args[1] = 5
    /\ result = Raise("ValueError")

\* C8 as claimed: VQEProxy(num_qubits) with num_qubits outside {6, 10} raises
\* ValueError before a Hamiltonian is generated or an optimization is run
C8_VQESizes ==
    (kind = "VQEProxy" /\ args[1] \notin {6, 10}) =>
        /\ pc = "failed"
        /\ result = Raise("ValueError")
        /\ Hamiltonian = <<>>
        /\ opt_runs = 0

\* C9: PhaseCode(num_data_qubits, num_rounds, phase_state) raises exactly when
\* len(phase_state) != num_data_qubits, and then none of the three is stored
C9_PhaseStateLength ==
    kind = "PhaseCode" =>
        /\ pc \in {"failed", "ready"}
        /\ pc = "failed" <=> Len(args[3]) # args[1]
        /\ pc = "failed" =>
              /\ result = Raise("ValueError")
              /\ num_qubits = 0 /\ num_rounds = 0 /\ phase_state = <<>>
        /\ pc = "ready" =>
              num_qubits = args[1] /\ num_rounds = args[2] /\ phase_state = args[3]

\* PhaseCode(n, 1) with phase_state left at its 3-element default and n # 3 failed
C9_Witness ==
    /\ kind = "PhaseCode"
    /\ pc = "failed"
    /\ args[3] = DefaultPhaseState
    /\ args[1] # 3
    /\ args[2] = 1
    /\ num_rounds = 0

\* C10 as claimed: two calls of score on the same instance with the same
\* measurement data return the same value, and no call of score or circuit()
\* changes the instance's Hamiltonian or parameter vector
C10_ScorePure ==
    [][/\ (Scored /\ call' = "score" /\ counts' = counts) => result' = result
       /\ pc = "ready" => (Hamiltonian' = Hamiltonian /\ params' = params)]_vars

----------------------------------------------------------------------------
(* Properties of the fixed-structure benchmarks and of the circuits *)

\* C11: for MerminBell with 3 or 4 qubits, score on the exact ideal output
\* distribution of the benchmark's own circuit() is exactly 1
C11_MerminIdealScoresOne ==
    (kind = "MerminBell" /\ Scored /\ counts = MerminIdealTable[num_qubits])
        => result = Float(One)

\* MerminBell(4) scored 1 on its 16-key ideal distribution
C11_Witness ==
    /\ kind = "MerminBell"
    /\ Scored
    /\ num_qubits = 4
    /\ Len(counts) = 16
    /\ counts = MerminIdealTable[4]
    /\ result = Float(One)

\* a fidelity (num + c * sqrt(d)) / den with at most one surd term is in [0, 1]
FidelityInUnitInterval(r) ==
    /\ r.tag = "float" /\ r.den > 0
    /\ Len(r.surds) <= 1
    /\ r.num >= 0 /\ r.num <= r.den
    /\ \A i \in 1..Len(r.surds) :
          /\ r.surds[i][2] >= 0
          /\ r.surds[i][2] * r.surds[i][2] * r.surds[i][1] <= (r.den - r.num) * (r.den - r.num)

\* the items of a GHZ measurement on the all-zeros and the all-ones bitstring
OnIdealSupport(cnt, n) ==
    SelectSeq(cnt, LAMBDA it : Key(it) \in {Repeat(0, n), Repeat(1, n)})

\* r = r0 * k / t, term by term
ScaledBy(r, r0, k, t) ==
    /\ r.num * r0.den * t = r0.num * k * r.den
    /\ Len(r.surds) = Len(r0.surds)
    /\ \A i \in 1..Len(r.surds) :
          /\ r.surds[i][1] = r0.surds[i][1]
          /\ r.surds[i][2] * r0.den * t = r0.surds[i][2] * k * r.den

ScoredCounters == IF kind = "VQEProxy" THEN counts ELSE <<counts>>

\* circuit() of the instance returns (a QAOA instance left with params [] raises)
CircuitSucceeds == kind \in QAOAKinds => Len(params) = 2

\* C13 as claimed: score on a measurement distribution that is empty or whose
\* values sum to zero returns no ordinary score value, for every benchmark
C13_NoScoreOnZeroTotal ==
    (Scored /\ \E c \in 1..Len(ScoredCounters) : Total(ScoredCounters[c]) = 0)
        => ~IsFinite(result)

\* C13 amended: on an instance whose circuit() succeeds, a non-empty Counter
\* whose values sum to zero makes score raise ZeroDivisionError in every
\* benchmark; an empty Counter does so in MerminBell only, and otherwise an
\* ordinary value comes back: 1/4 from GHZ and PhaseCode, 1/2 from the QAOA
\* benchmarks and from VQEProxy (both Counters empty, ideal energy non-zero)
C13_ZeroTotalRaises ==
    (Scored /\ CircuitSucceeds) =>
        /\ (\E c \in 1..Len(ScoredCounters) :
                Len(ScoredCounters[c]) > 0 /\ Total(ScoredCounters[c]) = 0)
              => result = Raise("ZeroDivisionError")
        /\ (kind = "MerminBell" /\ counts = <<>>) => result = Raise("ZeroDivisionError")
        /\ (kind \in {"GHZ", "PhaseCode"} /\ counts = <<>>) => result = Float(<<1, 4>>)
        /\ (kind \in QAOAKinds /\ counts = <<>>) => result = Float(<<1, 2>>)
        /\ (kind = "VQEProxy" /\ counts = <<<<>>, <<>>>> /\ IdealNonZero)
              => result = Float(<<1, 2>>)

\* a QAOA score() call on a non-empty Counter with zero total raised
C13_Witness ==
    /\ Scored
    /\ kind \in QAOAKinds
    /\ Len(params) = 2
    /\ Len(counts) > 0
    /\ Total(counts) = 0
    /\ result = Raise("ZeroDivisionError")

\* the last call was circuit() on a fixed-structure benchmark
FixedCircuitCalled ==
    pc = "ready" /\ call = "circuit" /\ kind \in {"GHZ", "MerminBell", "PhaseCode"}

\* C14 as claimed: circuit() of a fixed-structure benchmark measures as many
\* qubits as the benchmark was constructed with (n, num_qubits, num_data_qubits)
C14_MeasuredEqualsDeclared ==
    FixedCircuitCalled => (result.tag = "circuit" /\ result.num = args[1])

\* C14 amended: circuit() measures n qubits for GHZ(n), num_qubits for
\* MerminBell(num_qubits) and 2 * num_data_qubits - 1 (data and ancilla qubits)
\* for PhaseCode, for every number of rounds
C14_MeasuredQubits ==
    FixedCircuitCalled =>
        /\ result.tag = "circuit"
        /\ kind \in {"GHZ", "MerminBell"} => result.num = args[1]
        /\ kind = "PhaseCode" => result.num = 2 * args[1] - 1

\* circuit() of PhaseCode with 2 data qubits and one round measured 3 qubits
C14_Witness ==
    /\ FixedCircuitCalled
    /\ kind = "PhaseCode"
    /\ args[1] = 2
    /\ args[2] = 1
    /\ result = Circuit(3, 1)

\* the eigenvalue +1 or -1 read from a measured bit
BitSign(b) == 1 - 2 * b

\* the mean over the Counter cnt of the instance's Hamiltonian terms of one
\* Pauli type: weight * product of the signs of the bits of the term's qubits
TermsEnergy(pauli, cnt) ==
    LET terms == SelectSeq(Hamiltonian, LAMBDA t : t[1] = pauli)
        value(t, key) ==
            IF pauli = "X" THEN t[3] * BitSign(key[t[2][1] + 1])
            ELSE t[3] * BitSign(key[t[2][1] + 1]) * BitSign(key[t[2][2] + 1])
    IN  IF Len(cnt) = 0 THEN Zero
        ELSE Rat(Sum([i \in 1..Len(cnt) |->
                        Val(cnt[i]) * Sum([k \in 1..Len(terms) |-> value(terms[k], Key(cnt[i]))])]),
                 Total(cnt))

C16_SixCircuits ==
    (kind = "VQEProxy" /\ pc = "ready" /\ call = "circuit" /\ args[1] \in {6, 10}) =>
        /\ result.tag = "circuit"
        /\ result.den = 6
        /\ result.num = args[1]

\* what score() of the instance returns for the measurement input cnt
ScoreOf(cnt) ==
    IF kind = "VQEProxy" THEN vqe_score(H_ideal, cnt)
    ELSE qaoa_score(kind, Hamiltonian, params, H_ideal, cnt)

\* the measurement inputs with positive totals that score() of the instance may get
PositiveInputs ==
    IF kind = "VQEProxy"
    THEN {c \in VQECountsSet(num_qubits) : Total(c[1]) > 0 /\ Total(c[2]) > 0}
    ELSE {c \in CountsSet(num_qubits) : Total(c) > 0}

\* |H_ideal - experimental|
EnergyGap(experimental) == RatAbs(RatSub(H_ideal, experimental))

\* L1 distance between the normalized Counter cnt and the normalized ideal
\* distribution, times Total(cnt) * Total(ideal)
L1Times(cnt, ideal) ==
    Sum([i \in 1..Len(ideal) |->
            Abs(Get(cnt, Key(ideal[i])) * Total(ideal) - Val(ideal[i]) * Total(cnt))])

\* C17 as claimed, for the QAOA benchmarks: whenever the experimental
\* distribution A is at most as far in L1 distance from the ideal distribution
\* as the scored distribution B, score(A) >= score(B)
C17_MonotoneInL1 ==
    (Scored /\ kind \in QAOAKinds /\ PositiveTotal /\ IdealNonZero) =>
        \A A \in PositiveInputs :
            L1Times(A, IdealInput) * Total(counts) <= L1Times(counts, IdealInput) * Total(A)
                => RatLeq(Value(result), Value(ScoreOf(A).result))

\* C17 amended: for a fixed instance the energy-deviation score is
\* non-increasing in |H_ideal - H_experimental|: whenever the experimental
\* energy of A is at most as far from the ideal energy as that of the scored
\* input B, score(A) >= score(B)
C17_MonotoneInEnergyGap ==
    (Scored /\ kind \in Variational /\ PositiveTotal /\ IdealNonZero) =>
        \A A \in PositiveInputs :
            LET o == ScoreOf(A)
            IN  RatLeq(EnergyGap(o.H_experimental), EnergyGap(H_experimental))
                    => (IsFinite(o.result) /\ RatLeq(Value(result), Value(o.result)))

\* a scored QAOA input for which another input has a strictly smaller energy
\* gap and a strictly higher score although it is farther in L1 distance
C17_Witness ==
    /\ Scored
    /\ kind \in QAOAKinds
    /\ PositiveTotal
    /\ IdealNonZero
    /\ \E A \in PositiveInputs :
          LET o == ScoreOf(A)
          IN  /\ RatLess(EnergyGap(o.H_experimental), EnergyGap(H_experimental))
              /\ RatLess(Value(result), Value(o.result))
              /\ L1Times(A, IdealInput) * Total(counts) > L1Times(counts, IdealInput) * Total(A)

\* C18: the finished swap network on n qubits holds 3 * n * (n - 1) / 2 CNOT
\* operations, 18 for 4 qubits, whatever the weights, and acts on n qubits
C18_CnotCount ==
    pc = "swap_done" =>
        /\ cnots = 3 * ((num_qubits * (num_qubits - 1)) \div 2)
        /\ Len(interactions) = (num_qubits * (num_qubits - 1)) \div 2
        /\ num_qubits = 4 => cnots = 18
        /\ result = Circuit(num_qubits, 1)

\* a finished swap network on 4 qubits with weights of both signs
C18_Witness ==
    /\ pc = "swap_done"
    /\ num_qubits = 4
    /\ cnots = 18
    /\ \E k, m \in 1..Len(Hamiltonian) : Hamiltonian[k][3] = 1 /\ Hamiltonian[m][3] = -1

\* the steps in which the logical qubits a and b were the interacting pair
StepsOf(a, b) ==
    {k \in 1..Len(interactions) : {interactions[k][1], interactions[k][2]} = {a, b}}

\* C19: over the n layers of the swap network, n >= 2, every unordered pair of
\* distinct logical qubits is the pair of exactly one interact+swap step: none
\* interacts twice at any point and none is left out at the end
C19_EveryPairOnce ==
    pc \in {"swap_network", "swap_done"} =>
        \A a, b \in 0..(num_qubits - 1) :
            a < b => /\ Cardinality(StepsOf(a, b)) <= 1
                     /\ pc = "swap_done" => Cardinality(StepsOf(a, b)) = 1

\* a finished swap network on at least 5 qubits
C19_Witness ==
    /\ pc = "swap_done"
    /\ num_qubits >= 5
    /\ Cardinality(StepsOf(0, num_qubits - 1)) = 1

\* the edges of the Hamiltonian on the logical pair (a, b)
EdgesOn(a, b) == {k \in 1..Len(Hamiltonian) : Hamiltonian[k][1] = a /\ Hamiltonian[k][2] = b}

\* C20: at every interact+swap step the logical qubit on the lower physical
\* position has the lower index, so exactly one edge of the Hamiltonian
\* matches the lookup and the weight used is the weight of the interacting
\* pair; the local is never unbound and never left over from an earlier step
C20_WeightOfThePair ==
    /\ pc \in {"swap_network", "swap_done"} =>
          /\ \A k \in 1..Len(interactions) :
                /\ interactions[k][1] < interactions[k][2]
                /\ Cardinality(EdgesOn(interactions[k][1], interactions[k][2])) = 1
          /\ Len(interactions) > 0 =>
                LET e == interactions[Len(interactions)]
                IN  \A k \in EdgesOn(e[1], e[2]) : weight = Hamiltonian[k][3]
    /\ (kind = "QAOAFermionicSwapProxy" /\ pc = "failed") => result # Raise("UnboundLocalError")

\* a step whose weight differs from the weight of the step before it
C20_Witness ==
    /\ pc = "swap_network"
    /\ Len(interactions) >= 2
    /\ LET e == interactions[Len(interactions)]
           d == interactions[Len(interactions) - 1]
       IN  /\ \E k \in EdgesOn(e[1], e[2]) : weight = Hamiltonian[k][3]
           /\ \E k \in EdgesOn(d[1], d[2]) : weight # Hamiltonian[k][3]

----------------------------------------------------------------------------
(* The restarts of _gen_angles *)

\* C21: once a restart of a QAOA benchmark's _gen_angles has returned a cost
\* below 0, the running best (and after the loop the stored parameter vector)
\* is what the earliest run with the lowest cost so far returned, so a later
\* run with an equal cost has not replaced it; the running best cost is never
\* above 0: it is 0 until a run returns a cost below 0 and the lowest cost so
\* far from then on, hence non-increasing over the loop
C21_EarliestMinimumWins ==
    kind \in QAOAKinds =>
        /\ RatLeq(best_cost, Zero)
        /\ any_negative <=> earliest_min # NoRun
        /\ ~any_negative => (best_cost = Zero /\ best_params = <<>>)
        /\ any_negative =>
              /\ RatLess(earliest_min.cost, Zero)
              /\ best_params = earliest_min.params
              /\ best_cost = earliest_min.cost
              /\ pc = "ready" => params = earliest_min.params

\* a constructed QAOA instance whose lowest cost, below 0, was returned by two
\* runs with different parameter vectors: the stored one is the earlier
C21_Witness ==
    /\ kind \in QAOAKinds
    /\ pc = "ready"
    /\ opt_runs = NumRestarts
    /\ any_negative
    /\ earliest_min.tied_later
    /\ params = earliest_min.params

----------------------------------------------------------------------------
(* QAOA instances without parameters *)

\* C22: a QAOA benchmark (vanilla or fermionic-swap) whose constructor stored
\* the empty placeholder [] as its parameters was constructed without an
\* error, and every call of circuit() and of score() on it raises ValueError
\* at `gamma, beta = self.params`: no circuit is returned, and score computes
\* neither energy and returns no number, whatever the measurement data
C22_NoParamsNoCircuit ==
    kind \in QAOAKinds =>
        /\ pc # "failed"
        /\ (pc = "ready" /\ params = <<>>) =>
              /\ call = "none" => result = NoResult
              /\ call # "none" =>
                    /\ result = Raise("ValueError")
                    /\ H_ideal = NoValue
                    /\ H_experimental = NoValue

\* score() on an instance without parameters raised on a histogram with shots
C22_Witness ==
    /\ kind \in QAOAKinds
    /\ pc = "ready"
    /\ params = <<>>
    /\ opt_runs = NumRestarts
    /\ call = "score"
    /\ Total(counts) > 0
    /\ result = Raise("ValueError")

----------------------------------------------------------------------------
(* The Sherrington-Kirkpatrick instance *)

\* the terms of a Hamiltonian, without their order
TermSet(H) == {H[k] : k \in 1..Len(H)}

\* C23: _gen_sk_Hamiltonian returns exactly n(n-1)/2 terms [i, j, w] with
\* 0 <= i < j < n and w = +1 or -1, every pair i < j in exactly one term (none
\* for n = 0); the shuffled list holds the same terms as the list the loops
\* build from the drawn weights, in another order
C23_SKHamiltonian ==
    /\ gen_sk_Hamiltonian(0, <<>>, <<>>) = <<>>
    /\ (kind \in QAOAKinds /\ pc # "start") =>
          LET n == num_qubits
              H == Hamiltonian
          IN  /\ Len(H) = (n * (n - 1)) \div 2
              /\ \A k \in 1..Len(H) :
                    /\ Len(H[k]) = 3
                    /\ 0 <= H[k][1] /\ H[k][1] < H[k][2] /\ H[k][2] < n
                    /\ H[k][3] \in {1, -1}
              /\ \A i \in 0..(n - 1), j \in 0..(n - 1) :
                    i < j => Cardinality(EdgesOn(i, j)) = 1
              /\ LET m     == NumWeights(n)
                      pr    == PairsFrom(0, 1, n)
                      at(p) == H[CHOOSE k \in EdgesOn(p[1], p[2]) : TRUE][3]
                      w     == [k \in 1..m |-> at(pr[m + 1 - k])]
                      built == gen_sk_Hamiltonian(n, w, [k \in 1..m |-> k])
                  IN  /\ Len(built) = Len(H)
                      /\ TermSet(built) = TermSet(H)

\* a 4-qubit instance with weights of both signs whose terms are not in the
\* order the loops appended them in
C23_Witness ==
    /\ kind \in QAOAKinds
    /\ pc = "swap_network"
    /\ num_qubits = 4
    /\ Len(Hamiltonian) = 6
    /\ \E k \in 1..6 : Hamiltonian[k][3] = 1
    /\ \E k \in 1..6 : Hamiltonian[k][3] = -1
    /\ <<Hamiltonian[1][1], Hamiltonian[1][2]>> = <<2, 3>>

----------------------------------------------------------------------------
(* The transverse-field Ising instance *)

\* positions of the terms of Pauli type p in the instance's Hamiltonian
TermsOfType(p) == {k \in 1..Len(Hamiltonian) : Hamiltonian[k][1] = p}

\* the set of qubits a term acts on
QubitsOf(term) == {term[2][k] : k \in 1..Len(term[2])}

\* all terms have weight 1 and every qubit has exactly one X term
OneXPerQubit ==
    /\ \A k \in 1..Len(Hamiltonian) : Hamiltonian[k][3] = 1
    /\ Cardinality(TermsOfType("X")) = num_qubits
    /\ \A q \in 0..(num_qubits - 1) :
          Cardinality({k \in TermsOfType("X") : Hamiltonian[k][2] = <<q>>}) = 1

\* the ZZ terms couple each adjacent pair of the ring exactly once, and no
\* qubit to itself
OneZZPerRingPair ==
    /\ \A k \in TermsOfType("ZZ") :
          /\ Hamiltonian[k][2][1] # Hamiltonian[k][2][2]
          /\ \E q \in 0..(num_qubits - 1) :
                QubitsOf(Hamiltonian[k]) = {q, (q + 1) % num_qubits}
    /\ \A q \in 0..(num_qubits - 1) :
          Cardinality({k \in TermsOfType("ZZ") :
                          QubitsOf(Hamiltonian[k]) = {q, (q + 1) % num_qubits}}) = 1

----------------------------------------------------------------------------
(* The Mermin operator and the scorer's table *)

\* the Pauli strings over X, Y of length n with an odd number of Y, with
\* coefficient +1 for one Y and -1 for three
OddYTerms(n) ==
    {<<IF Sum(b) = 1 THEN 1 ELSE -1, pauli_string(b, 1)>> :
        b \in {c \in [1..n -> {0, 1}] : Sum(c) % 2 = 1}}

\* the measurement settings the scorer is said to hold
SettingsOf(n) ==
    IF n = 3 THEN {"XXY", "XYX", "YXX", "YYY"}
    ELSE {"XXXY", "XXYX", "XYXX", "YXXX", "XYYY", "YXYY", "YYXY", "YYYX"}

\* C25: for n = 3 and n = 4 the derived operator consists of exactly the Pauli
\* strings over X, Y with an odd number of Y, each once, with coefficient +1
\* for one Y and -1 for three; its strings are exactly the keys of the
\* scorer's table, which are the listed settings, so no lookup of a derived
\* string fails and no table entry is unused
C25_OperatorMatchesTable ==
    (kind = "MerminBell" /\ pc = "ready") =>
        LET n  == num_qubits
            op == mermin_operator(n)
        IN  /\ TermSet(op) = OddYTerms(n)
            /\ Len(op) = Cardinality(OddYTerms(n))
            /\ {op[t][2] : t \in 1..Len(op)} = count_keys(n)
            /\ Len(count_dict(n)) = Cardinality(count_keys(n))
            /\ count_keys(n) = SettingsOf(n)
            /\ call = "score" => result # Raise("KeyError")

\* a 4-qubit instance scored a histogram with shots: all 8 derived strings
\* were looked up
C25_Witness ==
    /\ kind = "MerminBell"
    /\ pc = "ready"
    /\ num_qubits = 4
    /\ Len(mermin_operator(4)) = 8
    /\ call = "score"
    /\ Total(counts) > 0
    /\ IsFinite(result)

----------------------------------------------------------------------------
(* Range and extremes of the MerminBell score *)

\* the last call was MerminBell.score on non-negative values with a positive total
MerminScored ==
    /\ Scored
    /\ kind = "MerminBell"
    /\ \A i \in 1..Len(counts) : Val(counts[i]) >= 0
    /\ Total(counts) > 0

\* expect_val of the last score() call, from the returned score
ExpectVal ==
    RatSub(Rat(2 * mermin_bound(num_qubits) * result.num, result.den),
           <<mermin_bound(num_qubits), 1>>)

\* C26: for MerminBell on 3 or 4 qubits and every measurement distribution
\* with non-negative values and a positive total, the accumulated expectation
\* value lies in [-4, 4] (3 qubits) or [-8, 8] (4 qubits) and the rescaled
\* score lies in [0, 1]
C26_ScoreInUnitInterval ==
    MerminScored =>
        /\ IsFinite(result)
        /\ RatLeq(Zero, Value(result)) /\ RatLeq(Value(result), One)
        /\ LET top == IF num_qubits = 3 THEN 4 ELSE 8
           IN  RatLeq(<<-top, 1>>, ExpectVal) /\ RatLeq(ExpectVal, <<top, 1>>)

\* a 4-qubit score strictly inside (0, 1) on shots spread over two bitstrings
C26_Witness ==
    /\ MerminScored
    /\ num_qubits = 4
    /\ Cardinality({i \in 1..Len(counts) : Val(counts[i]) > 0}) = 2
    /\ RatLess(Zero, Value(result))
    /\ RatLess(Value(result), One)

\* all shots of the last score() call are on the bitstring b
AllShotsOn(b) == \A i \in 1..Len(counts) : Val(counts[i]) > 0 => Key(counts[i]) = b

\* C27: the MerminBell score is 1 exactly when all shots are on '001'
\* (3 qubits) or '0001' (4 qubits), and 0 exactly when all shots are on '110'
\* or '1110', the bitstrings read big endian
C27_ExtremesOnOneBitstring ==
    MerminScored =>
        LET best  == IF num_qubits = 3 THEN <<0, 0, 1>> ELSE <<0, 0, 0, 1>>
            worst == IF num_qubits = 3 THEN <<1, 1, 0>> ELSE <<1, 1, 1, 0>>
        IN  /\ result = Float(One) <=> AllShotsOn(best)
            /\ result = Float(Zero) <=> AllShotsOn(worst)

\* a 4-qubit instance scored 0 with all its shots on '1110'
C27_Witness ==
    /\ MerminScored
    /\ num_qubits = 4
    /\ AllShotsOn(<<1, 1, 1, 0>>)
    /\ result = Float(Zero)

----------------------------------------------------------------------------
(* VQEProxy's energy and the instance's Hamiltonian *)

\* the sum over the terms of self.Hamiltonian of the weighted parity
\* expectation of the term: X terms on probs_X, ZZ terms on probs_Z
HamiltonianEnergy(probs_Z, probs_X) ==
    RatAdd(TermsEnergy("X", probs_X), TermsEnergy("ZZ", probs_Z))

\* C28: VQEProxy._get_expected_H_from_probs, which does not read
\* self.Hamiltonian, returns the energy of the TFIM instance built by
\* _gen_tfim_Hamiltonian: both energies score() computes with it, of the
\* measured and of the ideal distributions, equal the sum over the terms of
\* self.Hamiltonian of the term's weighted parity expectation, also for 1 and
\* 2 qubits, where the wrap-around term repeats a pair
C28_EnergyOfTheInstance ==
    (Scored /\ kind = "VQEProxy" /\ result.tag = "float") =>
        /\ Cardinality(TermsOfType("X")) + Cardinality(TermsOfType("ZZ")) = Len(Hamiltonian)
        /\ H_experimental = HamiltonianEnergy(counts[1], counts[2])
        /\ H_ideal = HamiltonianEnergy(IdealInput[1], IdealInput[2])

\* a 2-qubit instance scored shots on a bitstring with unequal bits, on which
\* the pair's two ZZ terms give -2
C28_Witness ==
    /\ Scored
    /\ kind = "VQEProxy"
    /\ num_qubits = 2
    /\ result.tag = "float"
    /\ PositiveTotal
    /\ \A i \in 1..Len(counts[1]) : Key(counts[1][i]) = <<0, 1>>
    /\ TermsEnergy("ZZ", counts[1]) = <<-2, 1>>
    /\ H_experimental = HamiltonianEnergy(counts[1], counts[2])

----------------------------------------------------------------------------
(* The parameter vector of VQEProxy *)

\* C29: for VQEProxy with num_layers L on n qubits the stored parameter vector
\* has exactly 4 * L * n components, and _gen_ansatz reads the indices
\* 0, 1, ..., 4 * L * n - 1 each exactly once, in increasing order, per layer
\* for an Ry block, an Rz block, an Ry block and an Rz block of n gates each:
\* no read is outside the vector, no component is unused, and circuit()
\* returns its circuits
C29_ParameterReads ==
    (kind = "VQEProxy" /\ pc = "ready") =>
        LET n     == num_qubits
            reads == gen_ansatz_reads(n, num_layers, 0)
        IN  /\ Len(params) = 4 * num_layers * n
            /\ Len(reads) = Len(params)
            /\ \A k \in 1..Len(reads) :
                  /\ reads[k][2] = k - 1
                  /\ reads[k][1] = IF ((k - 1) \div n) % 2 = 0 THEN "Ry" ELSE "Rz"
            /\ call = "circuit" => result.tag = "circuit"

\* circuit() of a two-layer instance on 6 qubits returned its circuits
C29_Witness ==
    /\ kind = "VQEProxy"
    /\ pc = "ready"
    /\ num_layers = 2
    /\ num_qubits = 6
    /\ Len(params) = 48
    /\ call = "circuit"
    /\ result.tag = "circuit"

----------------------------------------------------------------------------
Init ==
    /\ pc = "start"
    /\ args = <<0, 0, <<>>>>
    /\ kind = None
    /\ num_qubits = 0
    /\ num_rounds = 0
    /\ phase_state = <<>>
    /\ num_layers = 0
    /\ Hamiltonian = <<>>
    /\ params = <<>>
    /\ best_params = <<>>
    /\ best_cost = Zero
    /\ restart = 0
    /\ opt_runs = 0
    /\ any_negative = FALSE
    /\ earliest_min = NoRun
    /\ call = "none"
    /\ counts = <<>>
    /\ H_ideal = NoValue
    /\ H_experimental = NoValue
    /\ result = NoResult
    /\ layer = 0
    /\ pair = 0
    /\ virtual_map = <<>>
    /\ weight = 0
    /\ cnots = 0
    /\ interactions = <<>>

Next ==
    \/ \E k \in QAOAKinds, n \in QAOAQubitCounts : QAOAInit(k, n)
    \/ QAOARestart
    \/ QAOAReturn
    \/ QAOACircuit
    \/ QAOAScore
    \/ QAOAScoreIdeal
    \/ \E n \in VQEQubitCounts, layers \in VQELayerCounts : VQEInit(n, layers)
    \/ VQEGenAngles
    \/ VQECircuit
    \/ VQEScore
    \/ VQEScoreIdeal
    \/ \E n \in GHZQubitCounts : GHZInit(n)
    \/ GHZCircuit
    \/ GHZScore
    \/ \E n \in MerminQubitCounts : MerminBellInit(n)
    \/ MerminBellCircuit
    \/ MerminBellScore
    \/ MerminBellScoreIdeal
    \/ \E n \in PhaseQubitCounts, rounds \in PhaseRounds, ps \in PhaseStates :
          PhaseCodeInit(n, rounds, ps)
    \/ PhaseCodeCircuit
    \/ PhaseCodeScore

Spec == Init /\ [][Next]_vars

NextSwap ==
    \/ \E n \in 1..MaxSwapQubits : SwapStart(n)
    \/ SwapStep
    \/ SwapNextLayer
    \/ SwapReturn

SpecSwap == Init /\ [][NextSwap]_vars

====
